---- MODULE Spec2Model ----
(***************************************************************************)
(* The CRISPIN command-line launcher (src/src/__main__.py).                *)
(*                                                                         *)
(*   Spec      one `crispin run ...` process: click binds the command      *)
(*             line to run's parameters, run checks the entry path and     *)
(*             calls run_nextflow, the interpreter exits.                  *)
(*   SpecInit  `crispin init` invocations in one working directory, one    *)
(*             after the other.                                            *)
(*   SpecConc  `crispin init` invocations in one working directory, their  *)
(*             steps interleaved.                                          *)
(*                                                                         *)
(* Strings the option parser looks into are sequences of one-character     *)
(* strings.                                                                *)
(***************************************************************************)
EXTENDS Integers, Sequences, FiniteSets, TLC

VARIABLES
    \* ---- crispin run ----
    argv,           \* the tokens after `crispin run`
    extra,          \* the pass-through tokens the user put on the command line
    fs,             \* the paths that exist on the filesystem
    pc,             \* where the run process is
    main_path,      \* run's parameter main_path
    mode,           \* run's parameter _mode
    nextflow_args,  \* run's parameter kwargs["nextflow_args"]
    existsCalls,    \* the paths os.path.exists was called with, in order
    launches,       \* the calls of run_nextflow, in order
    childExit,      \* the exit code of the workflow engine's process
    exc,            \* the exception in flight
    exitCode,       \* the exit status of the crispin process
    \* ---- crispin init ----
    cwd,            \* the working directory: entry -> what is there
    cwd0,           \* the working directory before the first init
    ipc,            \* invocation -> where it is
    idx,            \* invocation -> index in `paths` of the next copy
    sawLog,         \* invocation -> what os.path.exists("log/") returned
    ierr,           \* invocation -> the error init ended with
    envFail,        \* invocation -> index of the copy the environment fails
    mkdirCalls,     \* invocation -> what was at log when os.mkdir was called
    written,        \* the entries some init created or wrote
    after           \* invocation -> the working directory when it ended

runVars == <<argv, extra, fs, pc, main_path, mode, nextflow_args, existsCalls,
             launches, childExit, exc, exitCode>>
initVars == <<cwd, cwd0, ipc, idx, sawLog, ierr, envFail, mkdirCalls, written, after>>
vars == <<runVars, initVars>>

\* ------------------------------------------------------------------ bounds
MaxArgs == 2        \* pass-through tokens on one command line
MaxExit == 3        \* the engine's exit codes are 0..MaxExit
NumInits == 2       \* init invocations in one working directory

\* ----------------------------------------------------------------- strings
None == <<"None">>

w_ddash == <<"-", "-">>
w_main == <<"-", "-", "m", "a", "i", "n">>
w_mode == <<"-", "-", "m", "o", "d", "e">>
w_help == <<"-", "-", "h", "e", "l", "p">>
w_h == <<"-", "h">>
w_local == <<"l", "o", "c", "a", "l">>
w_slurm == <<"s", "l", "u", "r", "m">>
w_aws == <<"a", "w", "s">>
w_preview == <<"-", "p", "r", "e", "v", "i", "e", "w">>
w_workdir == <<"-", "w", "o", "r", "k", "-", "d", "i", "r">>
w_wd == <<"w", "d">>
w_withreport == <<"-", "w", "i", "t", "h", "-", "r", "e", "p", "o", "r", "t">>
w_outdir == <<"-", "-", "o", "u", "t", "d", "i", "r">>

\* "CCBR/CRISPIN", the only acceptable github repo option
Sentinel == <<"C", "C", "B", "R", "/", "C", "R", "I", "S", "P", "I", "N">>
\* nek_base("main.nf"): the main.nf of the installed package
DefaultMain == <<"/", "p", "k", "g", "/", "m", "a", "i", "n", ".", "n", "f">>
UserMain == <<"m", "y", ".", "n", "f">>
DefaultMode == w_local

Paths == {Sentinel, DefaultMain, UserMain}
MainValues == {Sentinel, UserMain}
ModeValues == {w_local, w_slurm, w_aws}
PassTokens == {w_preview, w_workdir, w_wd, w_withreport, w_outdir, w_ddash}

RECURSIVE SeqsUpTo(_, _)
SeqsUpTo(S, n) ==
    IF n = 0 THEN {<<>>}
    ELSE LET shorter == SeqsUpTo(S, n - 1)
         IN  shorter \cup {Append(s, x) : s \in {t \in shorter : Len(t) = n - 1}, x \in S}

Head2(s) == SubSeq(s, 1, IF Len(s) < 2 THEN Len(s) ELSE 2)

\* the index of the first "=" of s, 0 when there is none
RECURSIVE EqAt(_, _)
EqAt(s, i) ==
    IF i > Len(s) THEN 0 ELSE IF s[i] = "=" THEN i ELSE EqAt(s, i + 1)

\* ------------------------------------------------- click's parser for `run`
\* The parameters of run: --main and --mode take a value, -h/--help is a flag,
\* nextflow_args takes every remaining token (nargs=-1). The command is built
\* with ignore_unknown_options=True; interspersed arguments are allowed.
OptPrefixes == {<<"-">>, w_ddash}
LongOpts == {w_main, w_mode, w_help}
ShortOpts == {w_h}
TakesValue(opt) == opt \in {w_main, w_mode}

NoOpts == [main_path |-> None, mode |-> None, help |-> FALSE]
ParsingState(args) == [rargs |-> args, largs |-> <<>>, opts |-> NoOpts, err |-> "None"]

\* Option.process with action "store"/"store_const"
OptionProcess(opt, value, st) ==
    IF opt = w_main THEN [st EXCEPT !.opts.main_path = value]
    ELSE IF opt = w_mode THEN [st EXCEPT !.opts.mode = value]
    ELSE [st EXCEPT !.opts.help = TRUE]

\* OptionParser._get_value_from_state, nargs = 1
get_value_from_state(opt, st) ==
    IF Len(st.rargs) < 1 THEN [st EXCEPT !.err = "BadOptionUsage"]
    ELSE OptionProcess(opt, Head(st.rargs), [st EXCEPT !.rargs = Tail(@)])

\* OptionParser._match_long_opt
match_long_opt(opt, explicit_value, st) ==
    IF opt \notin LongOpts THEN [st EXCEPT !.err = "NoSuchOption"]
    ELSE IF TakesValue(opt)
         THEN get_value_from_state(opt,
                 IF explicit_value # None
                 THEN [st EXCEPT !.rargs = <<explicit_value>> \o @]
                 ELSE st)
         ELSE IF explicit_value # None THEN [st EXCEPT !.err = "BadOptionUsage"]
              ELSE OptionProcess(opt, None, st)

\* OptionParser._match_short_opt: the characters of arg that are short options
\* of the command are processed, the others are put together again behind the
\* prefix and kept as one argument. The only short option, -h, is a flag.
RECURSIVE short_opt_loop(_, _, _, _)
short_opt_loop(arg, i, unknown_options, st) ==
    IF i > Len(arg)
    THEN IF unknown_options # <<>>
         THEN [st EXCEPT !.largs = Append(@, <<arg[1]>> \o unknown_options)]
         ELSE st
    ELSE IF <<arg[1], arg[i]>> \in ShortOpts
         THEN short_opt_loop(arg, i + 1, unknown_options,
                             OptionProcess(<<arg[1], arg[i]>>, None, st))
         ELSE short_opt_loop(arg, i + 1, Append(unknown_options, arg[i]), st)

match_short_opt(arg, st) == short_opt_loop(arg, 2, <<>>, st)

\* OptionParser._process_opts
process_opts(arg, st) ==
    LET eq == EqAt(arg, 1)
        long_opt == IF eq > 0 THEN SubSeq(arg, 1, eq - 1) ELSE arg
        explicit_value == IF eq > 0 THEN SubSeq(arg, eq + 1, Len(arg)) ELSE None
        r == match_long_opt(long_opt, explicit_value, st)
    IN  IF r.err = "NoSuchOption"
        THEN IF Head2(arg) \notin OptPrefixes
             THEN match_short_opt(arg, st)
             ELSE [st EXCEPT !.largs = Append(@, arg)]
        ELSE r

\* OptionParser._process_args_for_options
RECURSIVE process_args_for_options(_)
process_args_for_options(st) ==
    IF st.err # "None" \/ st.rargs = <<>> THEN st
    ELSE LET arg == Head(st.rargs)
             st1 == [st EXCEPT !.rargs = Tail(@)]
         IN  IF arg = w_ddash THEN st1
             ELSE IF Len(arg) > 1 /\ <<arg[1]>> \in OptPrefixes
                  THEN process_args_for_options(process_opts(arg, st1))
                  ELSE process_args_for_options([st1 EXCEPT !.largs = Append(@, arg)])

\* OptionParser.parse_args: the options, then nextflow_args = largs + rargs
parse_args(args) ==
    LET st == process_args_for_options(ParsingState(args))
    IN  [opts |-> st.opts, nextflow_args |-> st.largs \o st.rargs, err |-> st.err]

\* ------------------------------------------------------------- exceptions
NoExc == [type |-> "None", msg |-> <<>>, code |-> 0]
SystemExit(c) == [type |-> "SystemExit", msg |-> <<>>, code |-> c]
FileNotFoundError(path) ==
    [type |-> "FileNotFoundError",
     msg |-> <<"Path to the crispin main.nf file not found: ", path>>,
     code |-> 0]
LaunchError == [type |-> "LaunchError", msg |-> <<>>, code |-> 0]

\* --------------------------------------------------------------- crispin run
path_exists(path) == path \in fs

NeedsExistenceCheck_never(path) == FALSE

NeedsExistenceCheck_always(path) == TRUE

\* the entry path is checked unless it is the github repo
NeedsExistenceCheck(path) == path # Sentinel

CallsLauncher_anyway(rejected) == TRUE

\* raise FileNotFoundError leaves run: run_nextflow is called only when the
\* path was not rejected
CallsLauncher(rejected) == ~rejected

ExitStatus_masked(e) ==
    IF e.type = "None" \/ (e.type = "SystemExit" /\ e.code = 0) THEN 0 ELSE 1

\* the exit status of the process once cli() has ended: an exception that is
\* not SystemExit ends the interpreter with status 1
ExitStatus(e) ==
    IF e.type = "SystemExit" THEN e.code
    ELSE IF e.type = "None" THEN 0
    ELSE 1

ArgvOf(mainOpt, modeOpt, tokens) == mainOpt \o modeOpt \o tokens

RunInit ==
    /\ extra \in SeqsUpTo(PassTokens, MaxArgs)
    /\ \E mainOpt \in {<<>>} \cup {<<w_main, v>> : v \in MainValues},
          modeOpt \in {<<>>} \cup {<<w_mode, v>> : v \in ModeValues} :
          argv = ArgvOf(mainOpt, modeOpt, extra)
    /\ fs \in SUBSET Paths
    /\ pc = "Start"
    /\ main_path = None
    /\ mode = None
    /\ nextflow_args = <<>>
    /\ existsCalls = <<>>
    /\ launches = <<>>
    /\ childExit = -1
    /\ exc = NoExc
    /\ exitCode = -1

\* cli(): click parses the command line of `run`; a usage error ends the
\* command with status 2 (RunInit gives every option its value, so none
\* arises here), --help is eager and ends it with status 0, otherwise the
\* parameters are bound with their defaults
cli ==
    /\ pc = "Start"
    /\ LET p == parse_args(argv)
       IN  IF p.err # "None"
           THEN /\ pc' = "ClickExit"
                /\ exc' = SystemExit(2)
                /\ UNCHANGED <<main_path, mode, nextflow_args>>
           ELSE IF p.opts.help
           THEN /\ pc' = "ClickExit"
                /\ exc' = SystemExit(0)
                /\ UNCHANGED <<main_path, mode, nextflow_args>>
           ELSE /\ pc' = "Idle"
                /\ main_path' = IF p.opts.main_path = None THEN DefaultMain
                                ELSE p.opts.main_path
                /\ mode' = IF p.opts.mode = None THEN DefaultMode ELSE p.opts.mode
                /\ nextflow_args' = p.nextflow_args
                /\ exc' = exc
    /\ UNCHANGED <<argv, extra, fs, existsCalls, launches, childExit, exitCode>>
    /\ UNCHANGED initVars

\* click invokes the callback run(main_path, _mode, **kwargs)
run_called ==
    /\ pc = "Idle"
    /\ pc' = "ResolvingPath"
    /\ UNCHANGED <<argv, extra, fs, main_path, mode, nextflow_args, existsCalls,
                   launches, childExit, exc, exitCode>>
    /\ UNCHANGED initVars

\* the body of run up to the call of run_nextflow
run ==
    /\ pc = "ResolvingPath"
    /\ existsCalls' = IF NeedsExistenceCheck(main_path)
                      THEN Append(existsCalls, main_path)
                      ELSE existsCalls
    /\ LET rejected == NeedsExistenceCheck(main_path) /\ ~path_exists(main_path)
       IN  /\ pc' = IF rejected THEN "Rejected" ELSE "Invoking"
           /\ exc' = IF rejected THEN FileNotFoundError(main_path) ELSE exc
           /\ launches' = IF CallsLauncher(rejected)
                          THEN Append(launches,
                                      [nextfile_path |-> main_path,
                                       mode |-> mode,
                                       nextflow_args |-> nextflow_args])
                          ELSE launches
    /\ UNCHANGED <<argv, extra, fs, main_path, mode, nextflow_args, childExit, exitCode>>
    /\ UNCHANGED initVars

\* run_nextflow: the engine is started as a child process, crispin waits for it
\* and takes its exit status; or the engine cannot be started
run_nextflow ==
    /\ pc = "Invoking"
    /\ \/ \E c \in 0..MaxExit :
             /\ childExit' = c
             /\ exc' = SystemExit(c)
             /\ pc' = "Terminated"
       \/ /\ exc' = LaunchError
          /\ pc' = "LaunchFailed"
          /\ childExit' = childExit
    /\ UNCHANGED <<argv, extra, fs, main_path, mode, nextflow_args, existsCalls,
                   launches, exitCode>>
    /\ UNCHANGED initVars

\* main(): cli() has ended, nothing catches what it raised; the process exits
main ==
    /\ pc \in {"ClickExit", "Rejected", "Terminated", "LaunchFailed"}
    /\ exitCode = -1
    /\ exitCode' = ExitStatus(exc)
    /\ UNCHANGED <<argv, extra, fs, pc, main_path, mode, nextflow_args, existsCalls,
                   launches, childExit, exc>>
    /\ UNCHANGED initVars

InitIdle ==
    /\ cwd = <<>>
    /\ cwd0 = <<>>
    /\ ipc = <<>>
    /\ idx = <<>>
    /\ sawLog = <<>>
    /\ ierr = <<>>
    /\ envFail = <<>>
    /\ mkdirCalls = <<>>
    /\ written = {}
    /\ after = <<>>

Init == RunInit /\ InitIdle

Next == cli \/ run_called \/ run \/ run_nextflow \/ main

Spec == Init /\ [][Next]_vars

\* -------------------------------------------------------------- crispin init
Procs == 1..NumInits
Entries == {"nextflow.config", "conf", "assets", "log", "other"}

paths_short == <<"nextflow.config", "conf/">>

\* paths = ("nextflow.config", "conf/", "assets/")
paths == <<"nextflow.config", "conf/", "assets/">>

\* the entry of the working directory a relative path names
Entry(path) ==
    CASE path = "nextflow.config" -> "nextflow.config"
      [] path = "conf/" -> "conf"
      [] path = "assets/" -> "assets"
      [] path = "log/" -> "log"
      [] OTHER -> "other"

Absent == [kind |-> "absent", data |-> "none"]
UserFile == [kind |-> "file", data |-> "user"]
UserDir == [kind |-> "dir", data |-> "user"]
EmptyDir == [kind |-> "dir", data |-> "none"]

\* what the installed package holds at a template path
TemplateKind(e) == IF e = "nextflow.config" THEN "file" ELSE "dir"

\* the destination after the template was copied over what was there: a file
\* is replaced, a directory keeps the files it had and gets the template's
Copied(e, old) ==
    IF TemplateKind(e) = "file" THEN [kind |-> "file", data |-> "tmpl"]
    ELSE [kind |-> "dir",
          data |-> IF old.kind = "dir" /\ old.data \in {"user", "user+tmpl"}
                   THEN "user+tmpl" ELSE "tmpl"]

\* the copy of one template fails when the environment fails it (the template
\* is missing from the installation, the destination is not writable) or when
\* the destination is there and is not of the template's kind
CopyFails(p, k, d) ==
    \/ envFail[p] = k
    \/ d[Entry(paths[k])].kind \notin {"absent", TemplateKind(Entry(paths[k]))}

AfterCopyConfig_swallow(raised) == "check"

\* init does not catch what copy_config raises: the existence check of log/ is
\* reached only when copy_config returned
AfterCopyConfig(raised) == IF raised THEN "failed" ELSE "check"

\* os.path.exists("log/")
os_path_exists_log(d) == d["log"].kind = "dir"

NextAfterCheck_always(exists) == "mkdir"

NextAfterCheck_inverted(exists) == IF exists THEN "mkdir" ELSE "done"

\* if not os.path.exists("log/"): os.mkdir("log/")
NextAfterCheck(exists) == IF ~exists THEN "mkdir" ELSE "done"

Ended(p) == ipc[p] \in {"done", "failed"}

InitInit ==
    /\ cwd \in [Entries -> {Absent, UserFile, UserDir}]
    /\ cwd["other"] # UserDir
    /\ cwd0 = cwd
    /\ ipc = [p \in Procs |-> "idle"]
    /\ idx = [p \in Procs |-> 1]
    /\ sawLog = [p \in Procs |-> "unknown"]
    /\ ierr = [p \in Procs |-> "None"]
    /\ envFail \in [Procs -> 0..Len(paths)]
    /\ mkdirCalls = [p \in Procs |-> "notcalled"]
    /\ written = {}
    /\ after = [p \in Procs |-> <<>>]

\* click invokes the callback init(): copy_config(paths) starts
init_called(p) ==
    /\ ipc[p] = "idle"
    /\ ipc' = [ipc EXCEPT ![p] = "copy"]
    /\ UNCHANGED <<cwd, cwd0, idx, sawLog, ierr, envFail, mkdirCalls, written, after>>
    /\ UNCHANGED runVars

\* copy_config(paths): the next template is copied into the working directory
copy_config(p) ==
    /\ ipc[p] = "copy"
    /\ LET k == idx[p]
           e == Entry(paths[k])
           raised == CopyFails(p, k, cwd)
           last == k = Len(paths)
       IN  /\ cwd' = IF raised THEN cwd ELSE [cwd EXCEPT ![e] = Copied(e, cwd[e])]
           /\ written' = IF raised THEN written ELSE written \cup {e}
           /\ idx' = IF raised THEN idx ELSE [idx EXCEPT ![p] = k + 1]
           /\ ierr' = IF raised THEN [ierr EXCEPT ![p] = "CopyError"] ELSE ierr
           /\ ipc' = [ipc EXCEPT ![p] = IF raised \/ last
                                        THEN AfterCopyConfig(raised)
                                        ELSE "copy"]
           /\ after' = IF AfterCopyConfig(raised) = "failed"
                       THEN [after EXCEPT ![p] = cwd']
                       ELSE after
    /\ UNCHANGED <<cwd0, sawLog, envFail, mkdirCalls>>
    /\ UNCHANGED runVars

\* if not os.path.exists("log/"):
init_exists(p) ==
    /\ ipc[p] = "check"
    /\ LET exists == os_path_exists_log(cwd)
       IN  /\ sawLog' = [sawLog EXCEPT ![p] = IF exists THEN "present" ELSE "absent"]
           /\ ipc' = [ipc EXCEPT ![p] = NextAfterCheck(exists)]
           /\ after' = IF NextAfterCheck(exists) = "done"
                       THEN [after EXCEPT ![p] = cwd]
                       ELSE after
    /\ UNCHANGED <<cwd, cwd0, idx, ierr, envFail, mkdirCalls, written>>
    /\ UNCHANGED runVars

\* os.mkdir("log/"): FileExistsError when something is at log
init_mkdir(p) ==
    /\ ipc[p] = "mkdir"
    /\ mkdirCalls' = [mkdirCalls EXCEPT ![p] = cwd["log"].kind]
    /\ IF cwd["log"].kind = "absent"
       THEN /\ cwd' = [cwd EXCEPT !["log"] = EmptyDir]
            /\ written' = written \cup {"log"}
            /\ ipc' = [ipc EXCEPT ![p] = "done"]
            /\ ierr' = ierr
       ELSE /\ ipc' = [ipc EXCEPT ![p] = "failed"]
            /\ ierr' = [ierr EXCEPT ![p] = "FileExistsError"]
            /\ UNCHANGED <<cwd, written>>
    /\ after' = [after EXCEPT ![p] = cwd']
    /\ UNCHANGED <<cwd0, idx, sawLog, envFail>>
    /\ UNCHANGED runVars

RunIdle ==
    /\ argv = <<>>
    /\ extra = <<>>
    /\ fs = {}
    /\ pc = "NoRun"
    /\ main_path = None
    /\ mode = None
    /\ nextflow_args = <<>>
    /\ existsCalls = <<>>
    /\ launches = <<>>
    /\ childExit = -1
    /\ exc = NoExc
    /\ exitCode = -1

\* one invocation after the other: an invocation starts only when every
\* earlier one has ended
InSuccession(p) == \A q \in Procs : q < p => Ended(q)

init_called_next(p) == InSuccession(p) /\ init_called(p)

InitSeq == RunIdle /\ InitInit
NextSeq ==
    \E p \in Procs :
        init_called_next(p) \/ copy_config(p) \/ init_exists(p) \/ init_mkdir(p)
SpecInit == InitSeq /\ [][NextSeq]_vars

\* the steps of the invocations interleave: nothing guards the working directory
InitConc == RunIdle /\ InitInit
NextConc ==
    \E p \in Procs :
        init_called(p) \/ copy_config(p) \/ init_exists(p) \/ init_mkdir(p)
SpecConc == InitConc /\ [][NextConc]_vars

\* -------------------------------------------------------------- properties
\* the entry path the command line asks for: the value of --main, or the
\* default when --main is omitted (the options precede the pass-through tokens)
EffectiveMain ==
    IF Len(argv) >= 2 /\ argv[1] = w_main THEN argv[2] ELSE DefaultMain

InRunBody == pc \in {"ResolvingPath", "Invoking", "Rejected", "Terminated", "LaunchFailed"}
PastResolving == pc \in {"Invoking", "Rejected", "Terminated", "LaunchFailed"}

\* C1: in every execution of run, main_path is the effective entry path; when
\* it is not the sentinel and does not exist, run ends with the path-not-found
\* error naming that path, the launcher is never called and the process does
\* not exit with status 0.
C1_MissingPathRejected ==
    /\ InRunBody => main_path = EffectiveMain
    /\ (PastResolving /\ EffectiveMain # Sentinel /\ EffectiveMain \notin fs) =>
          /\ pc = "Rejected"
          /\ exc = FileNotFoundError(EffectiveMain)
          /\ launches = <<>>
          /\ childExit = -1
          /\ exitCode # 0

C1_Witness ==
    /\ pc = "Rejected"
    /\ exitCode = 1
    /\ main_path = DefaultMain
    /\ extra # <<>>

\* C2: in every execution of run with the sentinel as entry path, run never
\* calls os.path.exists and,
\* once past the path resolution, has called the launcher with the sentinel as
\* nextfile_path, whatever exists on the filesystem.
C2_SentinelSkipsCheck ==
    (InRunBody /\ EffectiveMain = Sentinel) =>
        /\ existsCalls = <<>>
        /\ PastResolving =>
              /\ pc \in {"Invoking", "Terminated", "LaunchFailed"}
              /\ Len(launches) = 1
              /\ launches[1].nextfile_path = Sentinel

C2_Witness ==
    /\ pc = "Invoking"
    /\ main_path = Sentinel
    /\ Sentinel \notin fs
    /\ Len(launches) = 1

C4_PassThroughVerbatim ==
    (exitCode # -1 /\ pc # "Rejected") =>
        /\ Len(launches) = 1
        /\ launches[1].nextflow_args = extra

\* C8: the run state machine. Rejected is entered only from ResolvingPath and
\* only for a non-sentinel path that does not exist; Invoking only from
\* ResolvingPath with an accepted path; ResolvingPath only from Idle;
\* Terminated only from Invoking, with the child's exit code; Rejected and
\* Terminated are never left; the launcher is called at most once and never
\* when the path was rejected.
C8_Step ==
    /\ (pc' = "ResolvingPath" /\ pc # "ResolvingPath") => pc = "Idle"
    /\ pc = "Idle" => pc' \in {"Idle", "ResolvingPath"}
    /\ pc = "ResolvingPath" => pc' \in {"ResolvingPath", "Invoking", "Rejected"}
    /\ (pc' = "Rejected" /\ pc # "Rejected") =>
          /\ pc = "ResolvingPath"
          /\ main_path # Sentinel
          /\ main_path \notin fs
          /\ existsCalls' = <<main_path>>
    /\ (pc' = "Invoking" /\ pc # "Invoking") =>
          /\ pc = "ResolvingPath"
          /\ main_path = Sentinel \/ main_path \in fs
          /\ launches = <<>>
    /\ (pc' = "Terminated" /\ pc # "Terminated") =>
          /\ pc = "Invoking"
          /\ childExit = -1
          /\ childExit' \in 0..MaxExit
    /\ pc \in {"Rejected", "Terminated"} =>
          /\ pc' = pc
          /\ launches' = launches
          /\ childExit' = childExit
    /\ launches' # launches => (pc = "ResolvingPath" /\ pc' = "Invoking")
    /\ Len(launches') <= 1
    /\ pc' = "Rejected" => launches' = <<>>
    /\ childExit' # -1 => pc' = "Terminated"

C8_RunStateMachine == [][C8_Step]_vars

C8_Witness ==
    /\ pc = "Terminated"
    /\ exitCode # -1
    /\ existsCalls = <<main_path>>
    /\ Len(launches) = 1

Present(d) == {e \in Entries : d[e].kind # "absent"}
Documented == {"nextflow.config", "conf", "assets", "log"}

\* the working directory an invocation of SpecInit started in
Before(p) == IF p = 1 THEN cwd0 ELSE after[p - 1]

\* C6: an init that follows a successful init in the same working directory,
\* and that the environment does not fail, succeeds; it finds log/ present
\* and does not call mkdir; the first one called mkdir exactly when log/ was
\* absent; the paths present after the second are those present after the
\* first.
C6_SecondInitSucceeds ==
    \A p \in Procs :
        (p > 1 /\ ipc[p - 1] = "done" /\ Ended(p) /\ envFail[p] = 0) =>
            /\ ipc[p] = "done"
            /\ ierr[p] = "None"
            /\ sawLog[p] = "present"
            /\ mkdirCalls[p] = "notcalled"
            /\ Present(after[p]) = Present(after[p - 1])
            /\ Before(p - 1)["log"].kind = "absent" <=> mkdirCalls[p - 1] = "absent"
            /\ Before(p - 1)["log"].kind # "absent" <=> mkdirCalls[p - 1] = "notcalled"

C6_Witness ==
    /\ ipc[1] = "done"
    /\ ipc[2] = "done"
    /\ cwd0["log"] = Absent
    /\ mkdirCalls[1] = "absent"
    /\ sawLog[2] = "present"

\* C7: when an init has succeeded, nextflow.config, conf/, assets/ and log/
\* exist; what init invocations wrote is among these four; every entry no
\* init wrote is as it was, and no entry has disappeared.
C7_InitCreatesFourPaths ==
    /\ written \subseteq Documented
    /\ \A e \in Entries \ written : cwd[e] = cwd0[e]
    /\ Present(cwd0) \subseteq Present(cwd)
    /\ \A p \in Procs :
          ipc[p] = "done" =>
              /\ after[p]["nextflow.config"].kind = "file"
              /\ after[p]["conf"].kind = "dir"
              /\ after[p]["assets"].kind = "dir"
              /\ after[p]["log"].kind = "dir"
              /\ after[p]["other"] = cwd0["other"]

C7_Witness ==
    /\ ipc[1] = "done"
    /\ Present(cwd0) = {"other"}
    /\ written = Documented
    /\ Present(cwd) = Entries

\* C9: when the copy of a template fails, init ends with that error; the
\* templates copied before it stay in the working directory; neither the
\* existence check of log/ nor mkdir is executed and log is as it was. The
\* log step is reached only after all copies have succeeded.
C9_CopyFailureSurfaced ==
    \A p \in Procs :
        /\ ierr[p] = "CopyError" =>
              /\ ipc[p] = "failed"
              /\ sawLog[p] = "unknown"
              /\ mkdirCalls[p] = "notcalled"
              /\ after[p]["log"] = Before(p)["log"]
              /\ \A j \in 1..(idx[p] - 1) :
                    /\ Entry(paths[j]) \in written
                    /\ cwd[Entry(paths[j])].kind = TemplateKind(Entry(paths[j]))
                    /\ cwd[Entry(paths[j])].data \in {"tmpl", "user+tmpl"}
        /\ (sawLog[p] # "unknown" \/ mkdirCalls[p] # "notcalled") =>
              /\ idx[p] = Len(paths) + 1
              /\ ierr[p] # "CopyError"
        /\ ipc[p] = "done" => ierr[p] = "None"

C9_Witness ==
    /\ ierr[1] = "CopyError"
    /\ idx[1] = 3
    /\ cwd0["conf"] = Absent
    /\ cwd0["log"] = Absent
    /\ after[1]["conf"].kind = "dir"
    /\ after[1]["log"] = Absent

\* C10 as claimed: where log is not a file to begin with, mkdir is called only
\* while log/ is absent and no invocation fails at the log step.
C10_LogStepAtomic ==
    cwd0["log"].kind # "file" =>
        \A p \in Procs :
            /\ mkdirCalls[p] \in {"notcalled", "absent"}
            /\ ierr[p] # "FileExistsError"

\* C10 as amended: the check and the mkdir are two steps. An invocation calls
\* mkdir exactly when its own check found log/ absent; it fails at the log
\* step exactly when something was at log by the time of its mkdir, which,
\* where log was absent to begin with, another invocation created in between;
\* at most one invocation creates log/, and log/ exists when one has succeeded.
C10_LogStepCheckThenAct ==
    /\ \A p \in Procs :
          /\ mkdirCalls[p] # "notcalled" => sawLog[p] = "absent"
          /\ sawLog[p] = "present" => (ipc[p] = "done" /\ mkdirCalls[p] = "notcalled")
          /\ ierr[p] = "FileExistsError" <=> mkdirCalls[p] \in {"dir", "file"}
          /\ (cwd0["log"] = Absent /\ ierr[p] = "FileExistsError") =>
                \E q \in Procs \ {p} : mkdirCalls[q] = "absent"
          /\ ipc[p] = "done" => cwd["log"].kind = "dir"
    /\ Cardinality({q \in Procs : mkdirCalls[q] = "absent"}) <= 1

C10_Witness ==
    \E p, q \in Procs :
        /\ p # q
        /\ cwd0["log"] = Absent
        /\ sawLog[p] = "absent"
        /\ sawLog[q] = "absent"
        /\ mkdirCalls[q] = "absent"
        /\ ipc[q] = "done"
        /\ ierr[p] = "FileExistsError"

====
